---- MODULE Spec2Model ----
(***************************************************************************)
(* A model of agent-tools: the sub-agent session monitor                   *)
(* (subagent_monitor.py), the tool registry (registry.py), the two vision  *)
(* clients (vision/ollama.py, vision/venice.py, vision/base.py), the       *)
(* environment loading (utils/config.py) and the command line (cli.py).    *)
(*                                                                         *)
(* Conventions.  A Python dict read with .get(k, default) is a record      *)
(* whose fields are optional values: <<>> is "key absent" (for             *)
(* totalTokens also "null") and <<v>> is "key present with value v".       *)
(* Strings the code slices are sequences of characters.  Times are in      *)
(* milliseconds; the code's idle_min = idle_ms / 60000 is kept as idle_ms  *)
(* and every comparison idle_min > m is made as idle_ms > m * 60000.       *)
(* A call's outcome is a record [kind |-> "return", ...] or                *)
(* [kind |-> "raise", exc |-> <exception type>].                           *)
(*                                                                         *)
(* Each part has its own specification over the same variables, the        *)
(* other parts staying in their initial state:                             *)
(*   SpecHealth    calls of check_health on one session                    *)
(*   SpecReport    print_report on a listing, with restarts in between     *)
(*   SpecSessions  get_sessions on the output of the listing command       *)
(*   SpecRegistry  the registry functions and a caller holding their lists *)
(*   SpecVision    one analyze_image call of either client                 *)
(*   SpecConfig    load_dotenv calls and from_env of either client         *)
(*   SpecCli       the agent-tools command line (list, json, check)        *)
(*   SpecMain      the monitor's main, once or in watch mode               *)
(*   SpecResult    a VisionResult constructed and converted to a string    *)
(*   SpecOrder     print_report on listings with several update times      *)
(***************************************************************************)
EXTENDS Integers, Sequences, FiniteSets, TLC

VARIABLES
    now,          \* the last value read from datetime.now(), in ms
    session,      \* check_health: the session dict passed in (or <<>>)
    threshold,    \* check_health: the stuck_threshold passed in
    health,       \* check_health: the dict returned (or <<>> before a call)
    sessions,     \* print_report: the list of session dicts passed in
    polled,       \* print_report: the check_health calls of the last report,
                  \*   in call order, each [session, t] with t the clock read
    report,       \* print_report: health_data of the last report (or <<>>)
    proc,         \* get_sessions: the CompletedProcess of the listing command
    flags,        \* get_sessions: [subagents_only, channels_only]
    listing,      \* get_sessions: the call's outcome (or <<>> before it)
    heap,         \* registry: the list objects; heap[1] is _REGISTRY and the
                  \*   others are the lists list_tools has returned
    environ,      \* os.environ: each variable unset (<<>>) or set (<<v>>)
    importable,   \* the provider modules import_module can import
    regCall,      \* registry: the last call, [op, name] (or <<>>)
    regOut,       \* registry: the last call's outcome (or <<>>)
    vin,          \* analyze_image: the client, the arguments and what the
                  \*   file system and the server will answer
    vpc,          \* analyze_image: where the call is
    requests,     \* analyze_image: the requests the call has sent
    vout,         \* analyze_image: the call's outcome (or <<>>)
    dotenvs,      \* the .env files from the working directory upwards:
                  \*   dotenvs[i] is the file i-1 levels up (or <<>>: none)
    cpc,          \* from_env: where the call is
    cfgCall,      \* config: the last call, [op, arg] (or <<>>)
    cfgOut,       \* config: the last call's outcome (or <<>>)
    command,      \* agent-tools CLI: the command argument (or <<>>)
    clipc,        \* agent-tools CLI: where main is
    printed,      \* agent-tools CLI: what the command has printed so far
    all_ok,       \* agent-tools CLI: check_setup's all_ok
    cliExit,      \* agent-tools CLI: the exit code (or <<>> while running)
    args,         \* monitor main: the flags found in sys.argv
    mpc,          \* monitor main: where main (or watch_mode) is
    cmds,         \* monitor main: the external commands run in this pass
    mexit,        \* monitor main: how the process ended (or <<>>)
    resArgs,      \* VisionResult: the arguments of the constructor call
    result,       \* VisionResult: the object constructed (or <<>>)
    shown         \* VisionResult: str(result) (or <<>> before the call)

healthVars == <<now, session, threshold, health>>

reportVars == <<sessions, polled, report>>

listVars == <<proc, flags, listing>>

regVars == <<heap, environ, importable, regCall, regOut>>

visVars == <<vin, vpc, requests, vout>>

cfgVars == <<dotenvs, cpc, cfgCall, cfgOut>>

cliVars == <<command, clipc, printed, all_ok, cliExit>>

mainVars == <<args, mpc, cmds, mexit>>

resVars == <<resArgs, result, shown>>

vars ==
    <<healthVars, reportVars, listVars, regVars, visVars, cfgVars, cliVars,
      mainVars, resVars>>

\* What the actions of one component leave alone.
monitorRest ==
    <<listVars, regVars, visVars, cfgVars, cliVars, mainVars, resVars>>

listRest ==
    <<healthVars, reportVars, regVars, visVars, cfgVars, cliVars, mainVars,
      resVars>>

regRest ==
    <<healthVars, reportVars, listVars, visVars, cfgVars, cliVars, mainVars,
      resVars>>

visRest ==
    <<healthVars, reportVars, listVars, regVars, cfgVars, cliVars, mainVars,
      resVars>>

----------------------------------------------------------------------------
(* Optional values and dict.get                                            *)

None == <<>>

Some(v) == <<v>>

\* dict.get(field, default) on a record of optional values.
Get(d, f, default) == IF d[f] = None THEN default ELSE d[f][1]

----------------------------------------------------------------------------
(* Time                                                                    *)

MsPerMin == 60000

IdleIssueMin == 5

DefaultStuckThreshold == 10

\* A second --stuck-threshold value, below the 5 minute idle note.
OtherThreshold == 2

Thresholds == {OtherThreshold, DefaultStuckThreshold}

\* The first poll time; the clock values the model reads are T0, one
\* millisecond later and one minute later.
T0 == DefaultStuckThreshold * MsPerMin

NowValues == {T0, T0 + 1, T0 + MsPerMin}

\* updatedAt values: with now = T0 the idle times are exactly 10, 5 and
\* OtherThreshold minutes and -1 minute (a timestamp in the future).
UpdatedAtValues ==
    {None, Some(T0 - IdleIssueMin * MsPerMin),
     Some(T0 - OtherThreshold * MsPerMin), Some(T0 + MsPerMin)}

----------------------------------------------------------------------------
(* Sessions as the external tool lists them                                *)

Kinds == {"isolated", "group"}

TokenValues == {None, Some(0), Some(1500)}

BoolValues == {None, Some(FALSE), Some(TRUE)}

\* sessionId and model are strings the code slices and splits: they are
\* sequences of characters here.
LongSessionId == <<"0", "1", "2", "3", "4", "5", "6", "7", "8", "9">>

ProviderModel == <<"o", "l", "/", "k", "2">>

\* The fields of a session that feed only the displayed columns: key, kind,
\* sessionId and model.
Identities ==
    {[key |-> Some("agent:main"), kind |-> Some("isolated"),
      sessionId |-> None, model |-> None],
     [key |-> Some("cron:nightly"), kind |-> Some("group"),
      sessionId |-> Some(LongSessionId), model |-> Some(ProviderModel)]}

MkSession(id, u, t, s, a) ==
    [key |-> id.key, kind |-> id.kind, sessionId |-> id.sessionId,
     model |-> id.model, updatedAt |-> u, totalTokens |-> t,
     systemSent |-> s, abortedLastRun |-> a]

\* Every session dict check_health is tried on.
HealthSessions ==
    {MkSession(id, u, t, s, a) :
        id \in Identities, u \in UpdatedAtValues,
        t \in TokenValues, s \in BoolValues, a \in BoolValues}

----------------------------------------------------------------------------
(* format_duration and the issue strings                                   *)

\* n / d rounded to the nearest integer, ties to even, as the format
\* specs .0f and .1f round (d > 0; \div is the floor and % is >= 0).
RoundDiv(n, d) ==
    LET q == n \div d
        r == n % d
    IN  IF 2 * r < d THEN q
        ELSE IF 2 * r > d THEN q + 1
        ELSE IF q % 2 = 0 THEN q ELSE q + 1

\* format_duration(idle_ms / 60000): "<n>s" in whole seconds below one
\* minute, "<n/10>m" in tenths of a minute below one hour, else "<n/10>h".
format_duration(idle_ms) ==
    IF idle_ms < MsPerMin THEN <<RoundDiv(idle_ms, 1000), "s">>
    ELSE IF idle_ms < 60 * MsPerMin THEN <<RoundDiv(idle_ms, 6000), "m">>
    ELSE <<RoundDiv(idle_ms, 360000), "h">>

\* An issue string: its fixed text and what is formatted into it.
Issue(text, arg) == [text |-> text, arg |-> arg]

IssueCrashed == Issue("crashed/aborted", <<>>)

IssueNeverStarted == Issue("never started (no system)", <<>>)

IssueIdle(idle_ms) == Issue("idle", format_duration(idle_ms))

IssueStuck(stuck_threshold) == Issue("STUCK >min", <<stuck_threshold>>)

\* format_timestamp: the second of the day of an epoch-ms time (%H:%M:%S).
format_timestamp(ts_ms) == (ts_ms \div 1000) % 86400

----------------------------------------------------------------------------
(* check_health                                                            *)

\* "not system_sent and (total_tokens is None or total_tokens == 0)"
NeverStarted(system_sent, total_tokens) ==
    ~system_sent /\ (total_tokens = None \/ total_tokens = Some(0))

\* "idle_min > 5 and (total_tokens is not None and total_tokens > 0)"
IdleNoted(idle_ms, total_tokens) ==
    idle_ms > IdleIssueMin * MsPerMin
        /\ (total_tokens # None /\ total_tokens[1] > 0)

\* A remembered crash: the flag, or a "crashed" row for the same key in the
\* report printed before.
AbortedLastRun_Remembered(s) ==
    \/ Get(s, "abortedLastRun", FALSE)
    \/ \E i \in 1..Len(report) :
           report[i].key = Get(s, "key", "unknown")
               /\ report[i].status = "crashed"

\* session.get("abortedLastRun", False)
AbortedLastRun(s) == Get(s, "abortedLastRun", FALSE)

\* A variant that already counts an idle time equal to the threshold.
IsStuck_AtThreshold(idle_ms, stuck_threshold) ==
    idle_ms >= stuck_threshold * MsPerMin

\* "idle_min > stuck_threshold"
IsStuck(idle_ms, stuck_threshold) == idle_ms > stuck_threshold * MsPerMin

\* A variant that replaces the list instead of appending to it.
AppendIf_Overwrite(cond, issues, issue) ==
    IF cond THEN <<issue>> ELSE issues

\* list.append under an if: the list is unchanged when the if is not taken.
AppendIf(cond, issues, issue) == IF cond THEN Append(issues, issue) ELSE issues

\* seq[:n]
Prefix(seq, n) == SubSeq(seq, 1, IF Len(seq) < n THEN Len(seq) ELSE n)

\* model.split("/")[-1]
AfterLastSlash(m) ==
    LET slashes == {i \in 1..Len(m) : m[i] = "/"}
        last == CHOOSE i \in slashes : \A j \in slashes : j <= i
    IN  IF slashes = {} THEN m ELSE SubSeq(m, last + 1, Len(m))

\* Lines 167-171: the provider prefix is dropped and a name longer than 18
\* characters is cut to 15 and "...".
ShortenModel(m) ==
    IF m = <<>> \/ m = <<"-">> THEN m
    ELSE LET name == AfterLastSlash(m)
         IN  IF Len(name) > 18 THEN Prefix(name, 15) \o <<".", ".", ".">>
             ELSE name

\* The four ifs of check_health in program order, each overwriting status
\* when it is taken.  t is the clock value read at line 184.  The display
\* name cut from the key (lines 173-182) is a column of the table only and
\* is left out.
check_health(s, stuck_threshold, t) ==
    LET key          == Get(s, "key", "unknown")
        kind         == Get(s, "kind", "unknown")
        session_id   == Prefix(Get(s, "sessionId", <<"-">>), 8)
        model        == ShortenModel(Get(s, "model", <<"-">>))
        updated_at   == Get(s, "updatedAt", 0)
        total_tokens == s.totalTokens
        system_sent  == Get(s, "systemSent", FALSE)
        aborted      == AbortedLastRun(s)
        idle_ms      == t - updated_at
        issues0      == <<>>
        status0      == "healthy"
        issues1      == AppendIf(aborted, issues0, IssueCrashed)
        status1      == IF aborted THEN "crashed" ELSE status0
        started      == ~NeverStarted(system_sent, total_tokens)
        issues2      == AppendIf(~started, issues1, IssueNeverStarted)
        status2      == IF ~started THEN "stalled" ELSE status1
        issues3      == AppendIf(IdleNoted(idle_ms, total_tokens), issues2,
                                 IssueIdle(idle_ms))
        stuck        == IsStuck(idle_ms, stuck_threshold)
        issues4      == AppendIf(stuck, issues3, IssueStuck(stuck_threshold))
        status4      == IF stuck THEN "suspect" ELSE status2
    IN  [key |-> key, id |-> session_id, kind |-> kind, status |-> status4,
         idle_ms |-> idle_ms, total_tokens |-> total_tokens,
         model |-> model, issues |-> issues4,
         last_update |-> format_timestamp(updated_at),
         system_sent |-> system_sent]

----------------------------------------------------------------------------
(* Calls of check_health on one session                                    *)

ReportIdle == sessions = <<>> /\ polled = <<>> /\ report = <<>>

ListIdle ==
    /\ proc = [returncode |-> 0, stdout |-> <<>>]
    /\ flags = [subagents_only |-> FALSE, channels_only |-> FALSE]
    /\ listing = <<>>

RegIdle ==
    /\ heap = <<>>
    /\ environ = [OLLAMA_HOST |-> <<>>, VENICE_API_KEY |-> <<>>]
    /\ importable = {}
    /\ regCall = <<>>
    /\ regOut = <<>>

VisIdle == vin = <<>> /\ vpc = "idle" /\ requests = 0 /\ vout = <<>>

ConfigIdle ==
    dotenvs = <<>> /\ cpc = "idle" /\ cfgCall = <<>> /\ cfgOut = <<>>

CliIdle ==
    /\ command = <<>>
    /\ clipc = "idle"
    /\ printed = <<>>
    /\ all_ok = TRUE
    /\ cliExit = <<>>

MainIdle == args = <<>> /\ mpc = "idle" /\ cmds = <<>> /\ mexit = <<>>

ResultIdle == resArgs = <<>> /\ result = <<>> /\ shown = <<>>

\* The parts outside the session monitor, the registry and analyze_image.
OthersIdle == ConfigIdle /\ CliIdle /\ MainIdle /\ ResultIdle

HealthIdle ==
    /\ now = T0
    /\ session = None
    /\ threshold = DefaultStuckThreshold
    /\ health = None

HealthInit ==
    /\ now = T0
    /\ session \in HealthSessions
    /\ threshold \in Thresholds
    /\ health = None
    /\ ReportIdle
    /\ ListIdle
    /\ RegIdle
    /\ VisIdle
    /\ OthersIdle

\* check_health(session, threshold): the clock is read once per call and
\* never runs backwards between calls.
CheckHealth ==
    \E t \in NowValues :
        /\ t >= now
        /\ now' = t
        /\ health' = check_health(session, threshold, t)
        /\ UNCHANGED <<session, threshold, reportVars, monitorRest>>

SpecHealth == HealthInit /\ [][CheckHealth]_vars

----------------------------------------------------------------------------
(* Properties of check_health.  The conditions are restated here on the    *)
(* raw fields of the session passed in and on the clock value read.        *)

Called == health # None

InAborted == session.abortedLastRun = Some(TRUE)

InSystemSent == session.systemSent = Some(TRUE)

InTokensPositive ==
    session.totalTokens # None /\ session.totalTokens[1] > 0

InNeverStarted == ~InSystemSent /\ ~InTokensPositive

InIdleMs ==
    now - (IF session.updatedAt = None THEN 0 ELSE session.updatedAt[1])

InStuck == InIdleMs > threshold * MsPerMin

InIdleNoted == InIdleMs > IdleIssueMin * MsPerMin /\ InTokensPositive

\* C1: a session with abortedLastRun = true has status "crashed", whatever
\* its other fields, its idle time and the stuck threshold are.
C1_AbortedAlwaysCrashed ==
    (Called /\ InAborted) => health.status = "crashed"

\* C2: the status is that of the first true condition in the order aborted,
\* never started, idle above the threshold; otherwise it is "healthy".
C2_FirstTrueWins ==
    Called =>
        health.status =
            IF InAborted THEN "crashed"
            ELSE IF InNeverStarted THEN "stalled"
            ELSE IF InStuck THEN "suspect"
            ELSE "healthy"

\* C3: a session that is neither aborted nor never started is "suspect"
\* when its idle time is strictly above the threshold and "healthy" when it
\* is at or below it.
C3_SuspectOrHealthy ==
    (Called /\ ~InAborted /\ ~InNeverStarted) =>
        health.status = (IF InStuck THEN "suspect" ELSE "healthy")

\* C3 witness: a started, not aborted session idle for exactly the threshold
\* has been checked and is healthy.
C3_Witness ==
    /\ Called /\ ~InAborted /\ ~InNeverStarted
    /\ InIdleMs = threshold * MsPerMin
    /\ health.status = "healthy"

C4_Expected ==
    LET all == <<[on |-> InAborted, issue |-> IssueCrashed],
                 [on |-> InNeverStarted, issue |-> IssueNeverStarted],
                 [on |-> InIdleNoted,
                  issue |-> Issue("idle", format_duration(InIdleMs))],
                 [on |-> InStuck, issue |-> IssueStuck(threshold)]>>
        IsOn(e) == e.on
        held == SelectSeq(all, IsOn)
    IN  [i \in 1..Len(held) |-> held[i].issue]

\* C4: the issue list holds one entry for each condition that is true
\* (aborted, never started, idle > 5 min with tokens, idle > threshold), in
\* that order and without duplicates, and is not empty when the status is
\* not "healthy".
C4_IssuesAccumulate ==
    Called =>
        /\ health.issues = C4_Expected
        /\ \A i, j \in 1..Len(health.issues) :
               i # j => health.issues[i] # health.issues[j]
        /\ health.status # "healthy" => health.issues # <<>>

\* C4 witness: three conditions are true at once (aborted, idle note,
\* stuck) and the call has listed three issues.
C4_Witness ==
    /\ Called /\ InAborted /\ InIdleNoted /\ InStuck
    /\ Len(health.issues) = 3

----------------------------------------------------------------------------
(* print_report: sort by recency, then one check_health call per session   *)

\* The most sessions in one listing.
MaxSessions == 2

\* The sessions of a listing: two that differ in key and kind, with or
\* without an update time, tokens and the aborted flag.
ReportSessions ==
    {MkSession(id, u, tk, None, a) :
        id \in Identities,
        u \in {None, Some(T0 - OtherThreshold * MsPerMin)},
        tk \in {None, Some(1500)},
        a \in {None, Some(TRUE)}}

SessionLists == UNION {[1..n -> ReportSessions] : n \in 0..MaxSessions}

\* The sort key "lambda x: x.get('updatedAt', 0)".
UpdatedAtKey(s) == Get(s, "updatedAt", 0)

\* A variant that puts x before the elements of equal key.
InsertDesc_BeforeEqual(sorted, x) ==
    LET notLarger == {i \in 1..Len(sorted) :
                          UpdatedAtKey(sorted[i]) <= UpdatedAtKey(x)}
        pos == IF notLarger = {} THEN Len(sorted) + 1
               ELSE CHOOSE i \in notLarger : \A j \in notLarger : i <= j
    IN  SubSeq(sorted, 1, pos - 1) \o <<x>> \o SubSeq(sorted, pos, Len(sorted))

\* x put into a list sorted by descending key, after every element whose
\* key is not smaller (the sort is stable).
InsertDesc(sorted, x) ==
    LET smaller == {i \in 1..Len(sorted) :
                        UpdatedAtKey(sorted[i]) < UpdatedAtKey(x)}
        pos == IF smaller = {} THEN Len(sorted) + 1
               ELSE CHOOSE i \in smaller : \A j \in smaller : i <= j
    IN  SubSeq(sorted, 1, pos - 1) \o <<x>> \o SubSeq(sorted, pos, Len(sorted))

RECURSIVE SortPrefix(_, _)
SortPrefix(ss, n) ==
    IF n = 0 THEN <<>> ELSE InsertDesc(SortPrefix(ss, n - 1), ss[n])

\* sorted(sessions, key=lambda x: x.get("updatedAt", 0), reverse=True)
SortedByUpdatedAt(ss) == SortPrefix(ss, Len(ss))

\* The clock values the calls of a report read: T0 and one ms later.
ReportNowValues == {T0, T0 + 1}

\* The clock values read by n successive calls, starting not before `from`.
ClockReads(n, from) ==
    {ts \in [1..n -> ReportNowValues] :
        /\ n > 0 => ts[1] >= from
        /\ \A i \in 1..(n - 1) : ts[i] <= ts[i + 1]}

ReportInit ==
    /\ now = T0
    /\ threshold \in Thresholds
    /\ sessions \in SessionLists
    /\ polled = <<>>
    /\ report = <<>>
    /\ session = None
    /\ health = None
    /\ ListIdle
    /\ RegIdle
    /\ VisIdle
    /\ OthersIdle

\* print_report(sessions, stuck_threshold=threshold) in the standard view:
\* nothing is checked for an empty list; otherwise health_data gets the
\* check_health result of each session in sorted order, each call reading
\* the clock itself.
PrintReport ==
    \/ /\ sessions = <<>>
       /\ polled' = <<>>
       /\ report' = <<>>
       /\ UNCHANGED <<now, session, threshold, health, sessions, monitorRest>>
    \/ /\ sessions # <<>>
       /\ \E ts \in ClockReads(Len(sessions), now) :
            LET sorted == SortedByUpdatedAt(sessions)
            IN  /\ polled' = [i \in 1..Len(sorted) |->
                                [session |-> sorted[i], t |-> ts[i]]]
                /\ report' = [i \in 1..Len(sorted) |->
                                check_health(sorted[i], threshold, ts[i])]
                /\ now' = ts[Len(sessions)]
       /\ UNCHANGED <<session, threshold, health, sessions, monitorRest>>

\* Between two reports the external tool's snapshot changes: a session that
\* had aborted runs again and its abortedLastRun flag is gone.
SessionRestarted ==
    \E i \in 1..Len(sessions) :
        /\ sessions[i].abortedLastRun = Some(TRUE)
        /\ sessions' = [sessions EXCEPT ![i].abortedLastRun = None]
        /\ UNCHANGED <<healthVars, polled, report, monitorRest>>

ReportNext == PrintReport \/ SessionRestarted

SpecReport == ReportInit /\ [][ReportNext]_vars

----------------------------------------------------------------------------
(* Properties of the statuses of one report                                *)

\* The fields of a session that check_health may base the status on.
Observed(s) ==
    <<s.abortedLastRun = Some(TRUE), s.systemSent = Some(TRUE),
      s.totalTokens, s.updatedAt>>

\* C5: two check_health calls made with the same threshold and the same
\* clock value on sessions that agree on abortedLastRun, systemSent,
\* totalTokens and updatedAt give the same status, whatever the sessions'
\* other fields are and whatever was reported for them before.
C5_StatusIsPureFunction ==
    \A i, j \in 1..Len(report) :
        (Observed(polled[i].session) = Observed(polled[j].session)
            /\ polled[i].t = polled[j].t)
        => report[i].status = report[j].status

\* C5 witness: a report holds two sessions that differ in key and kind,
\* agree on the observed fields and the clock value, and are both reported
\* as "suspect".
C5_Witness ==
    \E i, j \in 1..Len(report) :
        /\ polled[i].session.key # polled[j].session.key
        /\ polled[i].session.kind # polled[j].session.kind
        /\ Observed(polled[i].session) = Observed(polled[j].session)
        /\ polled[i].t = polled[j].t
        /\ report[i].status = "suspect"
        /\ report[j].status = "suspect"

----------------------------------------------------------------------------
(* get_sessions: the external listing command and the parse of its stdout  *)

\* A call's outcome.
Return(v) == [kind |-> "return", value |-> v]

Raise(e) == [kind |-> "raise", exc |-> e]

\* JSON values as get_sessions tells them apart: a value that is no object
\* (a number, a string, an array, null), an object without a "sessions"
\* key (a session, with its fields), and an object with a "sessions" array.
JScalar == [type |-> "scalar", sessions |-> None, self |-> None]

JSession(s) == [type |-> "dict", sessions |-> None, self |-> Some(s)]

JDoc(list) == [type |-> "dict", sessions |-> Some(list), self |-> None]

\* The lines of stdout: an empty line, a line that is not JSON, and a line
\* that is one JSON value.  A document printed over several lines is the
\* same document on one line (JSON ignores the line breaks between tokens).
BlankLine == [text |-> "blank", value |-> None]

JunkLine == [text |-> "junk", value |-> None]

JsonLine(v) == [text |-> "json", value |-> Some(v)]

\* The most lines of stdout, and the most sessions in a "sessions" array.
MaxLines == 2

MaxListed == 2

ListedSessions ==
    {JSession(MkSession(id, None, None, None, None)) : id \in Identities}

JsonValues ==
    {JScalar} \cup ListedSessions
        \cup {JDoc(l) : l \in UNION {[1..n -> ListedSessions] :
                                        n \in 0..MaxListed}}

Lines == {BlankLine, JunkLine} \cup {JsonLine(v) : v \in JsonValues}

Stdouts == UNION {[1..n -> Lines] : n \in 0..MaxLines}

IsNotBlank(line) == line.text # "blank"

\* json.loads(text): the value, or JSONDecodeError.  A text is a JSON
\* document when, whitespace aside, it is exactly one JSON value.
JsonLoads(lines) ==
    LET nb == SelectSeq(lines, IsNotBlank)
    IN  IF Len(nb) = 1 /\ nb[1].text = "json"
        THEN Return(nb[1].value[1])
        ELSE Raise("JSONDecodeError")

\* s.get("kind") == kind, for s a dict.
KindIs(v, kind) == v.self # None /\ v.self[1].kind = Some(kind)

\* "[s for s in sessions if s.get('kind') == ...]" under the two flags.
PostFilter(list, f) ==
    LET IsIsolated(v) == KindIs(v, "isolated")
        IsGroup(v) == KindIs(v, "group")
    IN  IF f.subagents_only THEN SelectSeq(list, IsIsolated)
        ELSE IF f.channels_only THEN SelectSeq(list, IsGroup)
        ELSE list

\* The try block of lines 36-44: stdout parsed as one document.  data.get
\* on a value that is no dict raises AttributeError, which is not caught.
ParseDocument(data, f) ==
    IF data.type # "dict" THEN Raise("AttributeError")
    ELSE Return(PostFilter(Get(data, "sessions", <<>>), f))

\* One line of the fallback loop, lines 48-58: the values it appends.  A
\* blank line is skipped, and any exception (a line that is not JSON,
\* s.get on a value that is no dict) is swallowed by the bare except.
FallbackLine(line, f) ==
    IF line.text # "json" THEN <<>>
    ELSE LET s == line.value[1]
         IN  IF f.subagents_only
             THEN IF s.type # "dict" THEN <<>>
                  ELSE IF KindIs(s, "isolated") THEN <<s>>
                  ELSE IF f.channels_only /\ KindIs(s, "group") THEN <<s>>
                  ELSE <<>>
             ELSE IF f.channels_only
             THEN IF s.type # "dict" THEN <<>>
                  ELSE IF KindIs(s, "group") THEN <<s>> ELSE <<>>
             ELSE <<s>>

RECURSIVE KeptLines(_, _, _)
KeptLines(lines, f, n) ==
    IF n = 0 THEN <<>>
    ELSE KeptLines(lines, f, n - 1) \o FallbackLine(lines[n], f)

\* A variant without the try/except around the parse of each line.
ParseLines_Unguarded(lines, f) ==
    IF \E i \in 1..Len(lines) : lines[i].text = "junk"
    THEN Raise("JSONDecodeError")
    ELSE Return(KeptLines(lines, f, Len(lines)))

\* The except block of lines 45-59: stdout parsed line by line.
ParseLines(lines, f) == Return(KeptLines(lines, f, Len(lines)))

\* get_sessions(subagents_only, channels_only), from the completed process.
get_sessions(p, f) ==
    IF p.returncode # 0 THEN Return(<<>>)
    ELSE LET data == JsonLoads(p.stdout)
         IN  IF data.kind = "return" THEN ParseDocument(data.value, f)
             ELSE ParseLines(p.stdout, f)

ListInit ==
    /\ proc \in [returncode : {0, 1}, stdout : Stdouts]
    /\ flags \in [subagents_only : BOOLEAN, channels_only : BOOLEAN]
    /\ listing = <<>>
    /\ HealthIdle
    /\ ReportIdle
    /\ RegIdle
    /\ VisIdle
    /\ OthersIdle

\* One call of get_sessions.
GetSessions ==
    /\ listing' = get_sessions(proc, flags)
    /\ UNCHANGED <<proc, flags, listRest>>

SpecSessions == ListInit /\ [][GetSessions]_vars

----------------------------------------------------------------------------
(* Properties of get_sessions                                              *)

\* No line of stdout parses as JSON (so stdout is no JSON document either).
Malformed == \A i \in 1..Len(proc.stdout) : proc.stdout[i].text # "json"

\* C6: when the listing command exits non-zero, and when its stdout is no
\* JSON document and has no line that parses as JSON, get_sessions returns
\* the empty list and raises nothing.
C6_NoSessionsOnFailure ==
    (listing # <<>> /\ (proc.returncode # 0 \/ Malformed))
        => listing = Return(<<>>)

\* C6 witness: the command exited with 0, printed only lines that are not
\* JSON, at least one of them not empty, and the call has returned [].
C6_Witness ==
    /\ proc.returncode = 0
    /\ Malformed
    /\ \E i \in 1..Len(proc.stdout) : proc.stdout[i].text = "junk"
    /\ listing = Return(<<>>)

----------------------------------------------------------------------------
(* The tool registry                                                       *)

ToolInfo(name, module_path, class_name, env_var) ==
    [name |-> name, module_path |-> module_path, class_name |-> class_name,
     env_vars |-> <<env_var>>]

\* _REGISTRY as the module defines it.
Registry ==
    <<ToolInfo("vision.ollama", "agent_tools.vision.ollama",
               "OllamaVisionClient", "OLLAMA_HOST"),
      ToolInfo("vision.venice", "agent_tools.vision.venice",
               "VeniceVisionClient", "VENICE_API_KEY")>>

\* A ToolInfo a caller may put into a list it was given.
CallerTool ==
    ToolInfo("vision.other", "other.module", "OtherClient", "OTHER_KEY")

\* The names looked up: the registered ones, one that differs from a
\* registered name by case only, and the empty name.
LookupNames == {"vision.ollama", "vision.venice", "vision.Ollama", ""}

\* The lists list_tools may return before the model stops calling it.
MaxLists == 2

\* _check_env(var): os.environ.get(var)
CheckEnv(var) == IF var \in DOMAIN environ THEN environ[var] ELSE None

\* The is_available lambda of an entry: its variable is set (to anything).
IsAvailable(tool) == CheckEnv(tool.env_vars[1]) # None

\* ToolInfo.cls: import_module(module_path), then getattr(class_name).  The
\* class is named by where it is defined.
Cls(tool) ==
    IF tool.module_path \in importable
    THEN Return(<<tool.module_path, tool.class_name>>)
    ELSE Raise("ImportError")

\* A variant whose loop returns on its first round, whatever the name.
FindTool_FirstEntry(reg, name) == IF reg # <<>> THEN 1 ELSE 0

\* "for tool in _REGISTRY: if tool.name == name": the index of the first
\* entry with the name, or 0 when the loop ends without one.
FindTool(reg, name) ==
    LET hits == {i \in 1..Len(reg) : reg[i].name = name}
    IN  IF hits = {} THEN 0 ELSE CHOOSE i \in hits : \A j \in hits : i <= j

get_tool(name) ==
    LET i == FindTool(heap[1], name)
    IN  IF i = 0 THEN Raise("KeyError") ELSE Cls(heap[1][i])

get_tool_info(name) ==
    LET i == FindTool(heap[1], name)
    IN  IF i = 0 THEN Raise("KeyError") ELSE Return(heap[1][i])

\* A variant that returns _REGISTRY itself instead of list(_REGISTRY).
list_tools_Alias(only_available) ==
    IF only_available
    THEN [heap |-> Append(heap, SelectSeq(heap[1], IsAvailable)),
          ref |-> Len(heap) + 1]
    ELSE [heap |-> heap, ref |-> 1]

\* list_tools(only_available): a new list object either way; the heap with
\* it and the reference returned.
list_tools(only_available) ==
    IF only_available
    THEN [heap |-> Append(heap, SelectSeq(heap[1], IsAvailable)),
          ref |-> Len(heap) + 1]
    ELSE [heap |-> Append(heap, heap[1]), ref |-> Len(heap) + 1]

discover ==
    LET reg == heap[1]
    IN  [tools |-> [i \in 1..Len(reg) |->
                       [name |-> reg[i].name, module |-> reg[i].module_path,
                        class |-> reg[i].class_name,
                        requires_env |-> reg[i].env_vars,
                        available |-> IsAvailable(reg[i])]],
         total |-> Len(reg),
         available |-> Cardinality({i \in 1..Len(reg) : IsAvailable(reg[i])})]

RegInit ==
    /\ heap = <<Registry>>
    /\ environ \in [OLLAMA_HOST : {None, Some("http://127.0.0.1:11434")},
                    VENICE_API_KEY : {None, Some("key")}]
    /\ importable \in {{"agent_tools.vision.ollama"},
                       {"agent_tools.vision.ollama",
                        "agent_tools.vision.venice"}}
    /\ regCall = <<>>
    /\ regOut = <<>>
    /\ HealthIdle
    /\ ReportIdle
    /\ ListIdle
    /\ VisIdle
    /\ OthersIdle

ListTools ==
    \E only_available \in BOOLEAN :
        LET r == list_tools(only_available)
        IN  /\ Len(heap) <= MaxLists
            /\ heap' = r.heap
            /\ regCall' = [op |-> "list_tools", name |-> ""]
            /\ regOut' = Return(r.ref)
            /\ UNCHANGED <<environ, importable, regRest>>

GetTool ==
    \E name \in LookupNames :
        /\ regCall' = [op |-> "get_tool", name |-> name]
        /\ regOut' = get_tool(name)
        /\ UNCHANGED <<heap, environ, importable, regRest>>

GetToolInfo ==
    \E name \in LookupNames :
        /\ regCall' = [op |-> "get_tool_info", name |-> name]
        /\ regOut' = get_tool_info(name)
        /\ UNCHANGED <<heap, environ, importable, regRest>>

Discover ==
    /\ regCall' = [op |-> "discover", name |-> ""]
    /\ regOut' = Return(discover)
    /\ UNCHANGED <<heap, environ, importable, regRest>>

\* The caller changes a list it holds (the reference list_tools gave it):
\* it appends an entry of its own (once), removes the last entry, or
\* reverses the list.
CallerMutates ==
    /\ regCall # <<>> /\ regCall.op = "list_tools"
    /\ LET ref == regOut.value
           l == heap[ref]
       IN  \/ /\ \A i \in 1..Len(l) : l[i] # CallerTool
              /\ heap' = [heap EXCEPT ![ref] = Append(l, CallerTool)]
           \/ /\ l # <<>>
              /\ heap' = [heap EXCEPT ![ref] = SubSeq(l, 1, Len(l) - 1)]
           \/ /\ Len(l) > 1
              /\ heap' = [heap EXCEPT
                            ![ref] = [i \in 1..Len(l) |-> l[Len(l) + 1 - i]]]
    /\ UNCHANGED <<environ, importable, regCall, regOut, regRest>>

RegNext == ListTools \/ GetTool \/ GetToolInfo \/ Discover \/ CallerMutates

SpecRegistry == RegInit /\ [][RegNext]_vars

----------------------------------------------------------------------------
(* Properties of the registry                                              *)

\* The class a direct import gives for each registered name
\* ("from agent_tools.vision.ollama import OllamaVisionClient").
DirectClass(name) ==
    IF name = "vision.ollama"
    THEN <<"agent_tools.vision.ollama", "OllamaVisionClient">>
    ELSE <<"agent_tools.vision.venice", "VeniceVisionClient">>

IsRegisteredName(name) == name \in {"vision.ollama", "vision.venice"}

LookedUp(op) == regCall # <<>> /\ regCall.op = op

\* get_tool_info gives the entry of the name asked for, and both lookups
\* raise KeyError for a name that is not registered.
LookupByName ==
    /\ LookedUp("get_tool_info") =>
          IF IsRegisteredName(regCall.name)
          THEN /\ regOut.kind = "return"
               /\ regOut.value.name = regCall.name
               /\ <<regOut.value.module_path, regOut.value.class_name>>
                      = DirectClass(regCall.name)
          ELSE regOut = Raise("KeyError")
    /\ (LookedUp("get_tool") /\ ~IsRegisteredName(regCall.name)) =>
          regOut = Raise("KeyError")

\* C7 as stated: get_tool(name) returns the class of the entry named
\* `name` whenever there is such an entry; get_tool and get_tool_info raise
\* KeyError for every other name; no lookup gives another name's entry.
C7_LookupReturnsClass ==
    /\ LookupByName
    /\ (LookedUp("get_tool") /\ IsRegisteredName(regCall.name)) =>
          regOut = Return(DirectClass(regCall.name))

\* C7 as amended: get_tool(name) gives what the direct import of the
\* entry's class gives: the class when the entry's module can be imported,
\* and the ImportError of that import when it cannot.
C7_LookupAsDirectImport ==
    /\ LookupByName
    /\ (LookedUp("get_tool") /\ IsRegisteredName(regCall.name)) =>
          regOut = IF DirectClass(regCall.name)[1] \in importable
                   THEN Return(DirectClass(regCall.name))
                   ELSE Raise("ImportError")

\* C7 witness: get_tool("vision.venice") has returned the class of the
\* second entry.
C7_Witness ==
    /\ LookedUp("get_tool")
    /\ regCall.name = "vision.venice"
    /\ regOut = Return(<<"agent_tools.vision.venice", "VeniceVisionClient">>)

\* C8: whatever calls were made and whatever a caller did to the lists it
\* was given, _REGISTRY holds the tools it was defined with, in that order,
\* and that is what a later discover() reports.
C8_RegistryFixed ==
    /\ heap[1] = Registry
    /\ LookedUp("discover") =>
          /\ regOut.value.total = 2
          /\ [i \in 1..Len(regOut.value.tools) |-> regOut.value.tools[i].name]
                 = <<"vision.ollama", "vision.venice">>

\* C8 witness: a caller has appended to a list that list_tools returned,
\* and a discover() made afterwards reports the two registered tools.
C8_Witness ==
    /\ \E ref \in 2..Len(heap) : Len(heap[ref]) > Len(Registry)
    /\ LookedUp("discover")
    /\ regOut.value.total = 2

----------------------------------------------------------------------------
(* The vision clients: analyze_image                                       *)

Clients == {"ollama", "venice"}

\* DEFAULT_MODEL of each client.
DefaultModel(client) ==
    IF client = "ollama" THEN "kimi-k2.5:cloud" ELSE "qwen3-vl-235b-a22b"

\* What the server does with the one request: it answers with an HTTP
\* error status, the connection fails, or it answers 200 with a body.
Transports == {"ok", "http_error", "connection_error"}

\* The body of a 200 answer: the expected shape with a text content, or a
\* shape that lacks choices[0].message.content.
GoodBody == "content"

BadBodies ==
    {"not_json", "no_choices", "empty_choices", "no_message", "no_content"}

Answers ==
    {[transport |-> tr, body |-> GoodBody] : tr \in Transports}
        \cup {[transport |-> "ok", body |-> b] : b \in BadBodies}

VisionCalls ==
    [client : Clients, image_readable : BOOLEAN,
     model : {None, Some("custom-model")}, answer : Answers]

\* The exception that reading data["choices"][0]["message"]["content"]
\* raises on the parsed JSON of a body (a dict), or None.
OllamaReadError(body) ==
    CASE body = "not_json" -> Some("JSONDecodeError")
      [] body = "no_choices" -> Some("KeyError")
      [] body = "empty_choices" -> Some("IndexError")
      [] body = "no_message" -> Some("KeyError")
      [] body = "no_content" -> Some("KeyError")
      [] OTHER -> None

\* The try block of OllamaVisionClient.analyze_image with its two except
\* clauses: every Exception raised by urlopen, json.loads or the
\* subscripts leaves as a RuntimeError.
OllamaReceive(call) ==
    IF call.answer.transport = "http_error" THEN Raise("RuntimeError")
    ELSE IF call.answer.transport = "connection_error"
    THEN Raise("RuntimeError")
    ELSE IF OllamaReadError(call.answer.body) # None
    THEN Raise("RuntimeError")
    ELSE Return([description |-> call.answer.body,
                 model |-> Get(call, "model", DefaultModel("ollama"))])

\* The exception that reading response.choices[0].message.content raises
\* on the SDK's response object, or None: an absent attribute of the
\* object is None, so an absent content is read without an error.
VeniceReadError(body) ==
    CASE body = "no_choices" -> Some("TypeError")
      [] body = "empty_choices" -> Some("IndexError")
      [] body = "no_message" -> Some("AttributeError")
      [] OTHER -> None

\* VeniceVisionClient.analyze_image after the request: there is no try
\* block, so what client.chat.completions.create raises (the SDK's own
\* exception type, here "VeniceError") and what the attribute reads raise
\* leave as they are.
VeniceReceive(call) ==
    IF call.answer.transport # "ok" \/ call.answer.body = "not_json"
    THEN Raise("VeniceError")
    ELSE IF VeniceReadError(call.answer.body) # None
    THEN Raise(VeniceReadError(call.answer.body)[1])
    ELSE Return([description |->
                     IF call.answer.body = "no_content" THEN "None"
                     ELSE call.answer.body,
                 model |-> Get(call, "model", DefaultModel("venice"))])

Receive(call) ==
    IF call.client = "ollama" THEN OllamaReceive(call) ELSE VeniceReceive(call)

\* A variant that sends the request again after a failure.
AfterReceive_Retry(outcome) ==
    IF outcome.kind = "raise" /\ requests < 3 THEN "send" ELSE "done"

\* Where the call goes once the answer is handled: it returns or raises;
\* neither client has a loop around its request.
AfterReceive(outcome) == "done"

VisInit ==
    /\ vin \in VisionCalls
    /\ vpc = "idle"
    /\ requests = 0
    /\ vout = <<>>
    /\ HealthIdle
    /\ ReportIdle
    /\ ListIdle
    /\ RegIdle
    /\ OthersIdle

\* analyze_image is called.
Call ==
    /\ vpc = "idle"
    /\ vpc' = "encode"
    /\ UNCHANGED <<vin, requests, vout, visRest>>

\* _encode_image: open() raises when the file cannot be read; this is
\* before the request and outside the try block in both clients.
Encode ==
    /\ vpc = "encode"
    /\ IF vin.image_readable
       THEN vpc' = "send" /\ vout' = vout
       ELSE vpc' = "done" /\ vout' = Raise("FileNotFoundError")
    /\ UNCHANGED <<vin, requests, visRest>>

\* urlopen(req) / client.chat.completions.create(...): the request leaves.
Send ==
    /\ vpc = "send"
    /\ requests' = requests + 1
    /\ vpc' = "receive"
    /\ UNCHANGED <<vin, vout, visRest>>

\* The answer is read and the call returns or raises.
HandleAnswer ==
    /\ vpc = "receive"
    /\ vout' = Receive(vin)
    /\ vpc' = AfterReceive(Receive(vin))
    /\ UNCHANGED <<vin, requests, visRest>>

VisNext == Call \/ Encode \/ Send \/ HandleAnswer

SpecVision == VisInit /\ [][VisNext]_vars

----------------------------------------------------------------------------
(* Properties of analyze_image                                             *)

Finished == vpc = "done"

\* The request was sent and the HTTP call failed, or the answer lacks
\* choices[0].message.content.
BadAnswer ==
    /\ requests > 0
    /\ \/ vin.answer.transport # "ok"
       \/ vin.answer.body \in BadBodies

\* C9: with either client, a call whose HTTP call fails or whose answer
\* lacks choices[0].message.content ends by raising RuntimeError: no other
\* exception type leaves and no VisionResult is returned.
C9_RuntimeErrorOnBadAnswer ==
    (Finished /\ BadAnswer) => vout = Raise("RuntimeError")

\* The same for the Ollama client alone.
OllamaRuntimeErrorOnBadAnswer ==
    (Finished /\ BadAnswer /\ vin.client = "ollama")
        => vout = Raise("RuntimeError")

\* C10: a call sends at most one request; it has sent exactly one when it
\* returns a VisionResult, and a call that ends with an error after a
\* failed or malformed answer has sent that one request and no second.
C10_AtMostOneRequest ==
    /\ requests <= 1
    /\ (Finished /\ vout.kind = "return") => requests = 1
    /\ (Finished /\ vout.kind = "raise" /\ BadAnswer) => requests = 1
    /\ vpc = "send" => requests = 0

\* C10 witness: a call has ended with an error after a bad answer, having
\* sent one request.
C10_Witness ==
    /\ Finished /\ BadAnswer
    /\ vout.kind = "raise"
    /\ requests = 1

----------------------------------------------------------------------------
(* utils/config.py: get_env and load_dotenv                                *)

\* A text (a line of the file, a key, a value) is a sequence of tokens: a
\* name or a value is one token, and each character the code looks for
\* (blank, '#', '=', the two quotes, '/') is a token of its own.
Whitespace == {" "}

Quotes == {"\"", "'"}

\* s.strip(chars): s without its leading and trailing tokens in chars.
StripChars(s, chars) ==
    LET keep == {i \in 1..Len(s) : s[i] \notin chars}
        first == CHOOSE i \in keep : \A j \in keep : i <= j
        last == CHOOSE i \in keep : \A j \in keep : j <= i
    IN  IF keep = {} THEN <<>> ELSE SubSeq(s, first, last)

\* s.rstrip(chars)
RStripChars(s, chars) ==
    LET keep == {i \in 1..Len(s) : s[i] \notin chars}
        last == CHOOSE i \in keep : \A j \in keep : j <= i
    IN  IF keep = {} THEN <<>> ELSE SubSeq(s, 1, last)

\* "=" in line
HasEq(line) == \E i \in 1..Len(line) : line[i] = "="

\* line.split("=", 1), for a line with an "=".
SplitAtFirstEq(line) ==
    LET eqs == {i \in 1..Len(line) : line[i] = "="}
        p == CHOOSE i \in eqs : \A j \in eqs : i <= j
    IN  [key |-> SubSeq(line, 1, p - 1),
         value |-> SubSeq(line, p + 1, Len(line))]

\* Lines 52-54: the key and the value of a stripped line with an "=".
KeyOf(line) == StripChars(SplitAtFirstEq(line).key, Whitespace)

ValueOf(line) ==
    StripChars(StripChars(SplitAtFirstEq(line).value, Whitespace), Quotes)

\* A variant that finds no key in the environment, so every line is set.
KeyInEnviron_Never(env, key) == FALSE

\* "key in os.environ".  The environment is modelled for the two variables
\* the clients read.
KeyInEnviron(env, key) ==
    Len(key) = 1 /\ key[1] \in DOMAIN env /\ env[key[1]] # None

\* "os.environ[key] = value": the environment after it and the exception it
\* raises (or None).  The empty name is refused with OSError (EINVAL); a
\* name other than the two modelled ones is set outside the model.
SetEnviron(env, key, value) ==
    IF key = <<>> THEN [env |-> env, exc |-> Some("OSError")]
    ELSE IF Len(key) = 1 /\ key[1] \in DOMAIN env
    THEN [env |-> [env EXCEPT ![key[1]] = Some(value)], exc |-> None]
    ELSE [env |-> env, exc |-> None]

\* One round of the loop of lines 47-56 on the raw line; st is the
\* environment so far and the exception that has ended the loop (or None).
ApplyLine(st, raw) ==
    LET line == StripChars(raw, Whitespace)
    IN  IF st.exc # None THEN st
        ELSE IF line = <<>> \/ line[1] = "#" THEN st
        ELSE IF HasEq(line)
        THEN IF ~KeyInEnviron(st.env, KeyOf(line))
             THEN SetEnviron(st.env, KeyOf(line), ValueOf(line))
             ELSE st
        ELSE st

RECURSIVE LoadLines(_, _, _)
LoadLines(lines, n, env) ==
    IF n = 0 THEN [env |-> env, exc |-> None]
    ELSE ApplyLine(LoadLines(lines, n - 1, env), lines[n])

\* Lines 34-41: the search from the working directory upwards; the index of
\* the nearest directory that has a .env, or 0.
FindDotenv ==
    LET found == {i \in 1..Len(dotenvs) : dotenvs[i] # None}
    IN  IF found = {} THEN 0 ELSE CHOOSE i \in found : \A j \in found : i <= j

\* load_dotenv(env_path) on the environment env.  env_path is None, or
\* Some(i) for the path of the .env in the i-th directory of the search.
load_dotenv(env_path, env) ==
    LET i == IF env_path = None THEN FindDotenv ELSE env_path[1]
    IN  IF i = 0 \/ dotenvs[i] = None THEN [env |-> env, exc |-> None]
        ELSE LoadLines(dotenvs[i][1], Len(dotenvs[i][1]), env)

\* A variant that does not look at `required`.
get_env_Optional(key, default, required) ==
    Return(IF environ[key] # None THEN environ[key] ELSE default)

\* get_env(key, default, required): the value returned (an optional value:
\* None is Python's None) or ValueError.
get_env(key, default, required) ==
    LET value == IF environ[key] # None THEN environ[key] ELSE default
    IN  IF required /\ value = None THEN Raise("ValueError")
        ELSE Return(value)

----------------------------------------------------------------------------
(* from_env and __init__ of the two clients                                *)

\* The default of OllamaVisionClient.__init__'s host and of from_env's
\* get_env call.
DefaultHost == <<"http://127.0.0.1:11434">>

\* OllamaVisionClient(host=host)
OllamaInit(host) ==
    [type |-> "ollama", host |-> RStripChars(host, {"/"}),
     default_model |-> DefaultModel("ollama")]

\* VeniceVisionClient(api_key=api_key)
VeniceInit(api_key) ==
    [type |-> "venice", api_key |-> api_key,
     default_model |-> DefaultModel("venice")]

\* The get_env call of each from_env.
FromEnvGet(client) ==
    IF client = "ollama" THEN get_env("OLLAMA_HOST", Some(DefaultHost), FALSE)
    ELSE get_env("VENICE_API_KEY", None, TRUE)

\* "cls(host=host)" / "cls(api_key=api_key)" on the value get_env returned.
FromEnvCls(client, value) ==
    IF client = "ollama" THEN OllamaInit(value[1])
    ELSE VeniceInit(IF value = None THEN "None" ELSE value[1])

----------------------------------------------------------------------------
(* Calls of load_dotenv and from_env                                       *)

\* The most lines of a .env file.
MaxEnvLines == 2

\* The lines of a .env file: blank, a comment (indented, with an "="), a
\* line without "=", assignments of the two variables (plain; with blanks
\* and quotes; a value containing "="; an empty value) and an assignment
\* with an empty key.
DotenvLines ==
    {<<>>,
     <<" ", "#", "VENICE_API_KEY", "=", "k1">>,
     <<"VENICE_API_KEY">>,
     <<"VENICE_API_KEY", "=", "k1">>,
     <<" ", "VENICE_API_KEY", " ", "=", " ", "\"", "k2", "\"", " ">>,
     <<"OLLAMA_HOST", "=", "http://a", "=", "b">>,
     <<"OLLAMA_HOST", "=">>,
     <<"=", "k1">>}

DotenvFiles == UNION {[1..n -> DotenvLines] : n \in 0..MaxEnvLines}

\* The .env one directory up, when there is one.
ParentDotenv ==
    <<<<"VENICE_API_KEY", "=", "k3">>,
      <<"OLLAMA_HOST", "=", "'", "http://p", "'">>>>

\* The env_path arguments: None, and the paths of the two .env files.
EnvPaths == {None, Some(1), Some(2)}

ConfigInit ==
    /\ dotenvs \in {<<c, p>> : c \in {None} \cup {Some(f) : f \in DotenvFiles},
                              p \in {None, Some(ParentDotenv)}}
    /\ environ \in [OLLAMA_HOST : {None, Some(<<"http://h", "/">>)},
                    VENICE_API_KEY : {None, Some(<<"e">>)}]
    /\ cpc = "idle"
    /\ cfgCall = <<>>
    /\ cfgOut = <<>>
    /\ heap = <<>>
    /\ importable = {}
    /\ regCall = <<>>
    /\ regOut = <<>>
    /\ HealthIdle
    /\ ReportIdle
    /\ ListIdle
    /\ VisIdle
    /\ CliIdle
    /\ MainIdle
    /\ ResultIdle

cfgRest ==
    <<dotenvs, heap, importable, regCall, regOut, healthVars, reportVars,
      listVars, visVars, cliVars, mainVars, resVars>>

\* No call is under way.
ConfigReady == cpc \in {"idle", "done"}

\* load_dotenv(env_path), called by the program itself.
LoadDotenvAt(env_path) ==
    LET r == load_dotenv(env_path, environ)
    IN  /\ ConfigReady
        /\ environ' = r.env
        /\ cpc' = "done"
        /\ cfgCall' = [op |-> "load_dotenv", arg |-> env_path]
        /\ cfgOut' = IF r.exc = None THEN Return(None) ELSE Raise(r.exc[1])
        /\ UNCHANGED cfgRest

LoadDotenv == \E env_path \in EnvPaths : LoadDotenvAt(env_path)

\* <Client>.from_env() is called.
FromEnv ==
    \E client \in Clients :
        /\ ConfigReady
        /\ cpc' = "load_dotenv"
        /\ cfgCall' = [op |-> "from_env", arg |-> client]
        /\ cfgOut' = <<>>
        /\ UNCHANGED <<environ, cfgRest>>

\* from_env: load_dotenv()
FromEnvLoad ==
    LET r == load_dotenv(None, environ)
    IN  /\ cpc = "load_dotenv"
        /\ environ' = r.env
        /\ IF r.exc = None
           THEN cpc' = "get_env" /\ cfgOut' = cfgOut
           ELSE cpc' = "done" /\ cfgOut' = Raise(r.exc[1])
        /\ UNCHANGED <<cfgCall, cfgRest>>

\* from_env: get_env(...), which raises or gives the value for cls(...)
FromEnvGetEnv ==
    /\ cpc = "get_env"
    /\ IF FromEnvGet(cfgCall.arg).kind = "raise"
       THEN cpc' = "done" /\ cfgOut' = FromEnvGet(cfgCall.arg)
       ELSE cpc' = "init" /\ cfgOut' = cfgOut
    /\ UNCHANGED <<environ, cfgCall, cfgRest>>

\* from_env: return cls(...), the client object comes to exist.
FromEnvInit ==
    /\ cpc = "init"
    /\ cpc' = "done"
    /\ cfgOut' = Return(FromEnvCls(cfgCall.arg, FromEnvGet(cfgCall.arg).value))
    /\ UNCHANGED <<environ, cfgCall, cfgRest>>

ConfigNext ==
    LoadDotenv \/ FromEnv \/ FromEnvLoad \/ FromEnvGetEnv \/ FromEnvInit

SpecConfig == ConfigInit /\ [][ConfigNext]_vars

----------------------------------------------------------------------------
(* Properties of load_dotenv and from_env.  The file's lines are read here *)
(* by their kind, without the loop of load_dotenv.                         *)

\* The file that load_dotenv(env_path) reads; no lines when there is none.
FileAt(env_path) ==
    LET found == {i \in 1..Len(dotenvs) : dotenvs[i] # None}
        i == IF env_path # None THEN env_path[1]
             ELSE IF found = {} THEN 0
             ELSE CHOOSE n \in found : \A j \in found : n <= j
    IN  IF i = 0 \/ dotenvs[i] = None THEN <<>> ELSE dotenvs[i][1]

\* A KEY=VALUE line: not blank, not a comment, with an "=".
IsAssignment(raw) ==
    LET line == StripChars(raw, Whitespace)
    IN  line # <<>> /\ line[1] # "#" /\ HasEq(line)

\* The KEY=VALUE lines of a file whose key is `key`.
AssignmentsOf(file, key) ==
    {i \in 1..Len(file) :
        IsAssignment(file[i])
            /\ KeyOf(StripChars(file[i], Whitespace)) = key}

\* The value of the first KEY=VALUE line for variable k among the first
\* `upto` lines of the file, or None.
FirstAssigned(file, k, upto) ==
    LET lines == {i \in AssignmentsOf(file, <<k>>) : i <= upto}
        first == CHOOSE i \in lines : \A j \in lines : i <= j
    IN  IF lines = {} THEN None
        ELSE Some(ValueOf(StripChars(file[first], Whitespace)))

\* The lines of a file before its first KEY=VALUE line with an empty key.
BeforeEmptyKey(file) ==
    LET bad == AssignmentsOf(file, <<>>)
    IN  IF bad = {} THEN Len(file)
        ELSE (CHOOSE i \in bad : \A j \in bad : i <= j) - 1

\* What a load of the first `upto` lines of a file does to the environment:
\* a variable that is set keeps its value, one that is not takes the value
\* of its first KEY=VALUE line if it has one, and is not set otherwise.
LoadEffect(file, upto) ==
    \A k \in DOMAIN environ :
        environ'[k] = IF environ[k] # None THEN environ[k]
                      ELSE FirstAssigned(file, k, upto)

FromEnvOf(client) ==
    cfgCall # <<>> /\ cfgCall.op = "from_env" /\ cfgCall.arg = client

\* The error load_dotenv() raises on the nearest .env, if it raises.
LoadError ==
    IF AssignmentsOf(FileAt(None), <<>>) = {} THEN None ELSE Some("OSError")

\* C11: VeniceVisionClient.from_env raises an error of the configuration
\* (ValueError from get_env, or the error load_dotenv itself raised on the
\* file) whenever VENICE_API_KEY is set neither in the environment nor by
\* the loaded .env; it does so before the constructor is reached and
\* without a request.  OllamaVisionClient.from_env raises nothing for a
\* missing OLLAMA_HOST and then gives a client for the default host.
C11_FromEnvRequiresCredential ==
    /\ (FromEnvOf("venice") /\ environ.VENICE_API_KEY = None) =>
          /\ cpc # "init"
          /\ requests = 0
          /\ cpc = "done" =>
                cfgOut = IF LoadError = None THEN Raise("ValueError")
                         ELSE Raise(LoadError[1])
    /\ (FromEnvOf("ollama") /\ cpc = "done") =>
          /\ cfgOut.kind = "raise" =>
                (LoadError # None /\ cfgOut.exc # "ValueError")
          /\ (cfgOut.kind = "return" /\ environ.OLLAMA_HOST = None) =>
                cfgOut.value.host = <<"http://127.0.0.1:11434">>
          /\ LoadError = None => cfgOut.kind = "return"

\* C11 witness: VeniceVisionClient.from_env() has raised ValueError after
\* loading a .env that sets OLLAMA_HOST only.
C11_Witness ==
    /\ FromEnvOf("venice")
    /\ cpc = "done"
    /\ FindDotenv = 1
    /\ environ.OLLAMA_HOST = Some(<<"http://a", "=", "b">>)
    /\ environ.VENICE_API_KEY = None
    /\ cfgOut = Raise("ValueError")

\* The Ollama half of C11 has happened: from_env() has returned a client
\* for the default host with OLLAMA_HOST not set.
OllamaDefaultHostReached ==
    /\ FromEnvOf("ollama")
    /\ cpc = "done"
    /\ environ.OLLAMA_HOST = None
    /\ cfgOut.kind = "return"

----------------------------------------------------------------------------
(* cli.py: the agent-tools command line                                    *)

\* The dict `checks` of check_setup, in its order: the variable and the
\* default that is shown for it (or None).
Checks ==
    <<[env_var |-> "OLLAMA_HOST", default |-> Some(DefaultHost)],
      [env_var |-> "VENICE_API_KEY", default |-> None]>>

\* The command argument: absent (then "list"), one of the three choices,
\* or a word argparse refuses.
Commands == {None, Some("list"), Some("json"), Some("check"), Some("bogus")}

\* A value of 21 characters, one more than is displayed in full.
LongValue ==
    <<"s", "k", "-", "0", "1", "2", "3", "4", "5", "6", "7", "8", "9",
      "a", "b", "c", "d", "e", "f", "g", "h">>

\* The values of a variable in the environment: unset, empty, short, long.
CliEnvValues == {None, Some(<<>>), Some(<<"k", "e", "y">>), Some(LongValue)}

\* A variant that takes every variable that is set, empty or not, as set.
Truthy_IsSet(value) == value # None

\* "if value:" on the result of os.environ.get: set and not empty.
Truthy(value) == value # None /\ value[1] # <<>>

\* Line 74: value[:20] + "..." if len(value) > 20 else value
Display(value) ==
    IF Len(value) > 20 THEN Prefix(value, 20) \o <<".", ".", ".">> ELSE value

\* One round of the loop of check_setup: what it prints for the variable.
CheckLine(check) ==
    LET value == CheckEnv(check.env_var)
    IN  IF Truthy(value)
        THEN [env_var |-> check.env_var, ok |-> TRUE,
              shown |-> Some(Display(value[1]))]
        ELSE [env_var |-> check.env_var, ok |-> FALSE,
              shown |-> check.default]

\* discover_tools(): the two entries it lists (the import of
\* agent_tools.vision, whose own imports of the providers are guarded,
\* succeeds).
CliTools == <<"vision.ollama", "vision.venice">>

CliInit ==
    /\ command \in Commands
    /\ environ \in [OLLAMA_HOST : CliEnvValues, VENICE_API_KEY : CliEnvValues]
    /\ clipc = "idle"
    /\ printed = <<>>
    /\ all_ok = TRUE
    /\ cliExit = None
    /\ heap = <<>>
    /\ importable = {}
    /\ regCall = <<>>
    /\ regOut = <<>>
    /\ HealthIdle
    /\ ReportIdle
    /\ ListIdle
    /\ VisIdle
    /\ ConfigIdle
    /\ MainIdle
    /\ ResultIdle

cliRest ==
    <<command, regVars, healthVars, reportVars, listVars, visVars, cfgVars,
      mainVars, resVars>>

\* main: parser.parse_args().  A word outside the choices ends the process
\* with argparse's exit code 2; no argument is "list".
ParseArgs ==
    /\ clipc = "idle"
    /\ IF command = Some("bogus")
       THEN clipc' = "exited" /\ cliExit' = Some(2)
       ELSE /\ clipc' = (IF command = None THEN "list" ELSE command[1])
            /\ cliExit' = cliExit
    /\ UNCHANGED <<printed, all_ok, cliRest>>

\* main: list_tools() or list_json(); main then returns and the process
\* ends with exit code 0.
ListOrJson ==
    /\ clipc \in {"list", "json"}
    /\ printed' = [i \in 1..Len(CliTools) |-> [tool |-> CliTools[i]]]
    /\ clipc' = "exited"
    /\ cliExit' = Some(0)
    /\ UNCHANGED <<all_ok, cliRest>>

\* check_setup is entered: all_ok = True.
CheckSetup ==
    /\ clipc = "check"
    /\ all_ok' = TRUE
    /\ clipc' = "loop"
    /\ UNCHANGED <<printed, cliExit, cliRest>>

\* A variant of the loop's end that leaves the loop at the first failure.
LoopDone_EarlyExit(n, ok) == n = Len(Checks) \/ ~ok

\* "for env_var, ... in checks.items()": the loop is over after n rounds.
LoopDone(n, ok) == n = Len(Checks)

\* One round of the loop: the next variable is looked up and reported.
CheckVar ==
    /\ clipc = "loop"
    /\ ~LoopDone(Len(printed), all_ok)
    /\ LET line == CheckLine(Checks[Len(printed) + 1])
       IN  /\ printed' = Append(printed, line)
           /\ all_ok' = (all_ok /\ line.ok)
    /\ UNCHANGED <<clipc, cliExit, cliRest>>

\* check_setup returns all_ok and main calls sys.exit(0 if ok else 1).
CheckExit ==
    /\ clipc = "loop"
    /\ LoopDone(Len(printed), all_ok)
    /\ clipc' = "exited"
    /\ cliExit' = Some(IF all_ok THEN 0 ELSE 1)
    /\ UNCHANGED <<printed, all_ok, cliRest>>

CliNext == ParseArgs \/ ListOrJson \/ CheckSetup \/ CheckVar \/ CheckExit

SpecCli == CliInit /\ [][CliNext]_vars

----------------------------------------------------------------------------
(* Properties of the check command                                         *)

\* The variable is set to a value that is not empty.
SetNonEmpty(var) == environ[var] # None /\ environ[var][1] # <<>>

\* C12: the check command exits with 0 exactly when OLLAMA_HOST and
\* VENICE_API_KEY are both set to a non-empty value and with 1 otherwise,
\* and by then both variables have been reported, each as it is.
C12_CheckExitCode ==
    (command = Some("check") /\ cliExit # None) =>
        /\ cliExit = Some(IF SetNonEmpty("OLLAMA_HOST")
                               /\ SetNonEmpty("VENICE_API_KEY")
                          THEN 0 ELSE 1)
        /\ Len(printed) = 2
        /\ printed[1].env_var = "OLLAMA_HOST"
        /\ printed[2].env_var = "VENICE_API_KEY"
        /\ \A i \in 1..2 : printed[i].ok = SetNonEmpty(printed[i].env_var)

\* C12 witness: check has exited with 1 after reporting OLLAMA_HOST, which
\* is set but empty, as not set and then VENICE_API_KEY as set.
C12_Witness ==
    /\ command = Some("check")
    /\ environ.OLLAMA_HOST = Some(<<>>)
    /\ cliExit = Some(1)
    /\ Len(printed) = 2
    /\ ~printed[1].ok
    /\ printed[2].ok

----------------------------------------------------------------------------
(* subagent_monitor.py: main and watch_mode                                *)

\* An external command the monitor runs: ["clear"], the listing command
\* "openclaw sessions list --active-minutes <minutes> --json [--kinds
\* <kinds>]" and "openclaw sessions history <key> --limit 3 --json".
Command(cmd, key, minutes, kinds) ==
    [cmd |-> cmd, key |-> key, minutes |-> minutes, kinds |-> kinds]

ClearCommand == Command("clear", None, None, None)

\* Lines 22-30: the listing command get_sessions builds.
ListCommand(active_minutes, f) ==
    Command("list", None, Some(active_minutes),
            IF f.subagents_only THEN Some("isolated")
            ELSE IF f.channels_only THEN Some("group")
            ELSE None)

\* Lines 64-65: the command of get_session_history(health["key"], limit=3).
HistoryCommand(key) == Command("history", Some(key), None, None)

\* Two sessions the tool lists with all their fields: one that is running
\* and one whose last run was aborted.
RunningSession ==
    JSession(MkSession(CHOOSE id \in Identities : id.kind = Some("isolated"),
                       Some(T0), Some(1500), Some(TRUE), None))

AbortedSession ==
    JSession(MkSession(CHOOSE id \in Identities : id.kind = Some("group"),
                       Some(T0), Some(1500), Some(TRUE), Some(TRUE)))

\* What the listing command may answer in one pass: a failure, nothing,
\* text that is not JSON, a document with two sessions, the two sessions
\* on a line each, a document that is no object, and a session line
\* followed by a line that is a number.
MainProcs ==
    {[returncode |-> 1, stdout |-> <<>>],
     [returncode |-> 0, stdout |-> <<>>],
     [returncode |-> 0, stdout |-> <<JunkLine>>],
     [returncode |-> 0,
      stdout |-> <<JsonLine(JDoc(<<RunningSession, AbortedSession>>))>>],
     [returncode |-> 0,
      stdout |-> <<JsonLine(RunningSession), JsonLine(AbortedSession)>>],
     [returncode |-> 0, stdout |-> <<JsonLine(JScalar)>>],
     [returncode |-> 0,
      stdout |-> <<JsonLine(RunningSession), JsonLine(JScalar)>>]}

\* The dict of a listed value that is an object.
SessionDict(v) ==
    IF v.self # None THEN v.self[1]
    ELSE MkSession([key |-> None, kind |-> None, sessionId |-> None,
                    model |-> None], None, None, None, None)

\* The listed values are all objects: x.get does not fail on them.
AllDicts(list) == \A i \in 1..Len(list) : list[i].type = "dict"

\* Lines 253-265: health_data, the check_health results of the sessions in
\* sorted order, ts being the clock values the calls read.
health_data(ss, stuck_threshold, ts) ==
    LET sorted == SortedByUpdatedAt(ss)
    IN  [i \in 1..Len(sorted) |->
            check_health(sorted[i], stuck_threshold, ts[i])]

\* A variant with a kill pass: when a kill is asked for, one more command
\* for each session of the report that is not healthy.
ReportCommands_Kill(data, show_details) ==
    LET NotHealthy(h) == h.status # "healthy"
        unhealthy == SelectSeq(data, NotHealthy)
    IN  (IF show_details
         THEN [i \in 1..Len(data) |->
                  Command("history", Some(data[i].key), None, None)]
         ELSE <<>>)
        \o (IF args.kill
            THEN [i \in 1..Len(unhealthy) |->
                     Command("kill", Some(unhealthy[i].key), None, None)]
            ELSE <<>>)

\* The external commands print_report runs: with show_details, the history
\* of each session of health_data (lines 258-259); none otherwise.
ReportCommands(data, show_details) ==
    IF show_details
    THEN [i \in 1..Len(data) |-> HistoryCommand(data[i].key)]
    ELSE <<>>

\* How the process ends: the exit code and what ended it.
Exit(code, by) == [code |-> code, by |-> by]

MainInit ==
    /\ args \in [watch : BOOLEAN, details : BOOLEAN, kill : BOOLEAN,
                 help : BOOLEAN]
    /\ flags \in [subagents_only : BOOLEAN, channels_only : BOOLEAN]
    /\ threshold \in Thresholds
    /\ now = T0
    /\ mpc = "idle"
    /\ cmds = <<>>
    /\ mexit = None
    /\ proc = [returncode |-> 0, stdout |-> <<>>]
    /\ listing = <<>>
    /\ session = None
    /\ health = None
    /\ ReportIdle
    /\ RegIdle
    /\ VisIdle
    /\ ConfigIdle
    /\ CliIdle
    /\ ResultIdle

mainRest ==
    <<args, flags, threshold, session, health, regVars, visVars, cfgVars,
      cliVars, resVars>>

\* main, lines 343-379: the flags are read; --help prints the usage and
\* returns; --watch enters watch_mode, whose loop starts with the clear.
\* Words that main does not look for (args.kill) change nothing.
Main ==
    /\ mpc = "idle"
    /\ IF args.help THEN mpc' = "exited" /\ mexit' = Some(Exit(0, "return"))
       ELSE IF args.watch THEN mpc' = "clear" /\ mexit' = mexit
       ELSE mpc' = "list" /\ mexit' = mexit
    /\ UNCHANGED <<now, proc, listing, reportVars, cmds, mainRest>>

\* watch_mode, line 332: subprocess.run(["clear"]) starts a pass.
Clear ==
    /\ mpc = "clear"
    /\ cmds' = <<ClearCommand>>
    /\ mpc' = "list"
    /\ UNCHANGED <<now, proc, listing, reportVars, mexit, mainRest>>

\* get_sessions (line 333, or line 381 outside watch mode): the listing
\* command runs and its output is parsed.  Neither watch_mode nor main
\* catches what get_sessions raises: the process ends with a traceback and
\* exit code 1.
List ==
    /\ mpc = "list"
    /\ \E p \in MainProcs :
        LET r == get_sessions(p, flags)
        IN  /\ proc' = p
            /\ listing' = r
            /\ IF r.kind = "raise"
               THEN mpc' = "exited" /\ mexit' = Some(Exit(1, r.exc))
               ELSE mpc' = "report" /\ mexit' = mexit
    /\ cmds' = Append(cmds,
                      ListCommand(IF args.watch THEN 120 ELSE 60, flags))
    /\ UNCHANGED <<now, reportVars, mainRest>>

\* Where the pass goes after print_report: to the sleep in watch mode, to
\* the end of main otherwise.
AfterReport == IF args.watch THEN "sleep" ELSE "exited"

\* print_report (line 334, or line 382): nothing but a message for an
\* empty list; otherwise the sessions are sorted and checked.  The sort
\* key and check_health call .get on each session, which raises
\* AttributeError on a listed value that is no object; it is not caught.
Report ==
    /\ mpc = "report"
    /\ IF listing.value = <<>>
       THEN /\ sessions' = <<>>
            /\ polled' = <<>>
            /\ report' = <<>>
            /\ mpc' = AfterReport
            /\ mexit' = IF args.watch THEN mexit ELSE Some(Exit(0, "return"))
            /\ UNCHANGED <<now, cmds>>
       ELSE IF ~AllDicts(listing.value)
       THEN /\ mpc' = "exited"
            /\ mexit' = Some(Exit(1, "AttributeError"))
            /\ UNCHANGED <<now, sessions, polled, report, cmds>>
       ELSE LET ss == [i \in 1..Len(listing.value) |->
                          SessionDict(listing.value[i])]
            IN  \E ts \in ClockReads(Len(ss), now) :
                  /\ sessions' = ss
                  /\ polled' = [i \in 1..Len(ss) |->
                                  [session |-> SortedByUpdatedAt(ss)[i],
                                   t |-> ts[i]]]
                  /\ report' = health_data(ss, threshold, ts)
                  /\ cmds' = cmds \o ReportCommands(report', args.details)
                  /\ now' = ts[Len(ss)]
                  /\ mpc' = AfterReport
                  /\ mexit' = IF args.watch THEN mexit
                              ELSE Some(Exit(0, "return"))
    /\ UNCHANGED <<proc, listing, mainRest>>

\* watch_mode, lines 335-336: the time of the check is printed and the
\* loop sleeps 30 s, then starts the next pass.
Sleep ==
    /\ mpc = "sleep"
    /\ mpc' = "clear"
    /\ UNCHANGED <<now, proc, listing, reportVars, cmds, mexit, mainRest>>

\* Ctrl+C while watch_mode is in its try block: KeyboardInterrupt is
\* caught at line 337 and the process exits with sys.exit(0).
Interrupt ==
    /\ args.watch
    /\ mpc \in {"clear", "list", "report", "sleep"}
    /\ mpc' = "exited"
    /\ mexit' = Some(Exit(0, "KeyboardInterrupt"))
    /\ UNCHANGED <<now, proc, listing, reportVars, cmds, mainRest>>

MainNext == Main \/ Clear \/ List \/ Report \/ Sleep \/ Interrupt

SpecMain == MainInit /\ [][MainNext]_vars

----------------------------------------------------------------------------
(* Properties of main and watch_mode                                       *)

\* watch_mode has been entered.
WatchEntered == args.watch /\ ~args.help

\* The commands of the current pass that are of the given kind.
CommandsOf(cmd) == {j \in 1..Len(cmds) : cmds[j].cmd = cmd}

\* C13: watch mode ends only on an interrupt, and then with exit code 0:
\* no failure of the listing command, of the parse of its output or of the
\* rendering ends the loop; each pass is clear, list, report, sleep in that
\* order, one pass at a time.
C13_WatchEndsOnlyOnInterrupt ==
    WatchEntered =>
        /\ mpc = "exited" => mexit = Some(Exit(0, "KeyboardInterrupt"))
        /\ mpc = "list" => cmds = <<ClearCommand>>
        /\ mpc \in {"report", "sleep"} =>
              /\ Len(cmds) >= 2
              /\ CommandsOf("clear") = {1}
              /\ CommandsOf("list") = {2}

\* A report has just been printed for the sessions listed in this pass.
ReportDone ==
    \/ mpc = "sleep"
    \/ mpc = "exited" /\ ~args.help /\ mexit = Some(Exit(0, "return"))

\* The kill commands of this pass for the session with the key.
Kills(key) == {j \in CommandsOf("kill") : cmds[j].key = Some(key)}

----------------------------------------------------------------------------
(* vision/base.py: VisionResult                                            *)

\* A variant that takes raw_response and model in the other order.
VisionResult_Swapped(description, raw_response, model) ==
    [description |-> description, raw_response |-> model,
     model |-> raw_response]

\* The dataclass VisionResult: the generated __init__ stores its three
\* arguments; raw_response and model default to None.
VisionResult(description, raw_response, model) ==
    [description |-> description, raw_response |-> raw_response,
     model |-> model]

\* A variant without __str__: str() gives the dataclass's repr.
Str_Repr(r) ==
    Return("VisionResult(description=..., raw_response=..., model=...)")

\* str(result): __str__ returns self.description, and str() raises
\* TypeError when that is not a string (a description of None).
Str(r) ==
    IF r.description = None THEN Raise("TypeError")
    ELSE Return(r.description[1])

\* The descriptions: texts (empty, plain, with punctuation, of several
\* lines, the word None) and, against the annotation, Python's None.
Descriptions ==
    {Some(""), Some("test description"), Some("found bots: Patti, Jason"),
     Some("line 1\nline 2"), Some("None"), None}

\* The raw responses: None or a response dict (named by its content).
RawResponses == {None, Some("{'choices': []}"), Some("{'choices': [...]}")}

\* The model names: None or a text.
ModelNames == {None, Some("test-model"), Some("kimi-k2.5:cloud")}

ResultInit ==
    /\ resArgs \in [description : Descriptions, raw_response : RawResponses,
                    model : ModelNames]
    /\ result = None
    /\ shown = None
    /\ HealthIdle
    /\ ReportIdle
    /\ ListIdle
    /\ RegIdle
    /\ VisIdle
    /\ ConfigIdle
    /\ CliIdle
    /\ MainIdle

resRest ==
    <<resArgs, healthVars, reportVars, listVars, regVars, visVars, cfgVars,
      cliVars, mainVars>>

\* VisionResult(description=..., raw_response=..., model=...)
Construct ==
    /\ result = None
    /\ result' = VisionResult(resArgs.description, resArgs.raw_response,
                              resArgs.model)
    /\ UNCHANGED <<shown, resRest>>

\* str(result)
ToStr ==
    /\ result # None
    /\ shown' = Str(result)
    /\ UNCHANGED <<result, resRest>>

ResultNext == Construct \/ ToStr

SpecResult == ResultInit /\ [][ResultNext]_vars

----------------------------------------------------------------------------
(* Properties of VisionResult                                              *)

\* C15: a VisionResult holds description, model and raw_response as they
\* were given to the constructor, and str(result) is the description given,
\* unchanged, whatever raw_response and model are (for a description that
\* is a text, as the dataclass declares it).
C15_StrIsDescription ==
    /\ result # None =>
          /\ result.description = resArgs.description
          /\ result.model = resArgs.model
          /\ result.raw_response = resArgs.raw_response
    /\ (shown # None /\ resArgs.description # None) =>
          shown = Return(resArgs.description[1])

\* C15 witness: str() of a result made with a raw response and a model has
\* given its description of two lines.
C15_Witness ==
    /\ result # None
    /\ result.raw_response # None
    /\ result.model = Some("test-model")
    /\ shown = Return("line 1\nline 2")

----------------------------------------------------------------------------
(* print_report on listings whose sessions differ in their update times    *)

\* The most sessions in a listing that is sorted.
MaxOrdered == 3

\* Sessions of either identity, without an update time or with one of
\* three.
OrderSessions ==
    {MkSession(id, u, Some(1500), Some(TRUE), None) :
        id \in Identities, u \in UpdatedAtValues}

OrderInit ==
    /\ now = T0
    /\ threshold = DefaultStuckThreshold
    /\ sessions \in UNION {[1..n -> OrderSessions] : n \in 0..MaxOrdered}
    /\ polled = <<>>
    /\ report = <<>>
    /\ session = None
    /\ health = None
    /\ ListIdle
    /\ RegIdle
    /\ VisIdle
    /\ OthersIdle

SpecOrder == OrderInit /\ [][PrintReport]_vars

\* The time a session is ordered by: its updatedAt, 0 when it has none.
Recency(s) == IF s.updatedAt = None THEN 0 ELSE s.updatedAt[1]

\* The ways to arrange n things.
Arrangements(n) ==
    {p \in [1..n -> 1..n] : \A i, j \in 1..n : i # j => p[i] # p[j]}

\* C16: the report has one row for each session passed in, none dropped or
\* doubled, most recent first, a session without updatedAt counting as
\* updatedAt = 0, and sessions of equal updatedAt in the order they were
\* passed in.
C16_RowsByRecency ==
    polled # <<>> =>
        /\ Len(report) = Len(sessions)
        /\ \E p \in Arrangements(Len(sessions)) :
              /\ \A i \in 1..Len(sessions) :
                     /\ polled[i].session = sessions[p[i]]
                     /\ report[i].key = sessions[p[i]].key[1]
                     /\ report[i].last_update
                            = format_timestamp(Recency(sessions[p[i]]))
              /\ \A i, j \in 1..Len(sessions) :
                     i < j =>
                         \/ Recency(sessions[p[i]]) > Recency(sessions[p[j]])
                         \/ /\ Recency(sessions[p[i]]) = Recency(sessions[p[j]])
                            /\ p[i] < p[j]

\* C16 witness: a listing of three sessions, the first without updatedAt
\* and the other two, of different keys, with the same positive one, has
\* been reported with the first session last and the other two in their
\* input order.
C16_Witness ==
    /\ Len(sessions) = 3
    /\ Len(polled) = 3
    /\ sessions[1].updatedAt = None
    /\ sessions[2].updatedAt # None
    /\ sessions[2].updatedAt = sessions[3].updatedAt
    /\ sessions[2].key # sessions[3].key
    /\ polled[1].session = sessions[2]
    /\ polled[2].session = sessions[3]
    /\ polled[3].session = sessions[1]

----------------------------------------------------------------------------
(* The kind filter of get_sessions                                         *)

\* The sessions that the parse of stdout yields before any filter, in the
\* order of the output: the "sessions" array when stdout is one JSON
\* object, and otherwise the values of the lines that are JSON.
ParsedSessions ==
    LET nb == SelectSeq(proc.stdout, IsNotBlank)
        IsJson(line) == line.text = "json"
        json == SelectSeq(proc.stdout, IsJson)
    IN  IF Len(nb) = 1 /\ nb[1].text = "json" /\ nb[1].value[1].type = "dict"
        THEN IF nb[1].value[1].sessions = None THEN <<>>
             ELSE nb[1].value[1].sessions[1]
        ELSE [i \in 1..Len(json) |-> json[i].value[1]]

\* The sessions the flags ask for: subagents_only asks for kind "isolated"
\* and wins over channels_only, which asks for kind "group".
Wanted(v) ==
    IF flags.subagents_only THEN KindIs(v, "isolated")
    ELSE IF flags.channels_only THEN KindIs(v, "group")
    ELSE TRUE

\* C17: on either parse path get_sessions returns, in the order of the
\* output, the parsed sessions of kind "isolated" with subagents_only
\* (also when channels_only is set too), those of kind "group" with
\* channels_only alone, and every parsed session with neither flag.
C17_KindFilterOnBothPaths ==
    (listing # <<>> /\ listing.kind = "return" /\ proc.returncode = 0) =>
        listing.value = SelectSeq(ParsedSessions, Wanted)

\* The same on the whole-document path alone.
KindFilterOnDocumentPath ==
    (listing # <<>> /\ listing.kind = "return" /\ proc.returncode = 0
        /\ JsonLoads(proc.stdout).kind = "return") =>
        listing.value = SelectSeq(ParsedSessions, Wanted)

\* The same on the line-by-line path unless both flags are set.
KindFilterOnLinePathOneFlag ==
    (listing # <<>> /\ listing.kind = "return" /\ proc.returncode = 0
        /\ ~(flags.subagents_only /\ flags.channels_only)) =>
        listing.value = SelectSeq(ParsedSessions, Wanted)

====
